---------------------------- MODULE Spec2Model ----------------------------
(***************************************************************************)
(* Model of the brief engine (src/engine.py) and the birthday runner       *)
(* (src/birthday_runner.py).                                               *)
(*                                                                         *)
(* Characters outside ASCII that the source uses in literals (one code     *)
(* point each) are written as one ASCII character: the bullet as *, the    *)
(* middle dot as |, the cake as ~, the phone as ^, the party popper as $.  *)
(***************************************************************************)
EXTENDS Integers, Sequences, FiniteSets, TLC

VARIABLES
    pc,             \* position of the running flow
    \* ---- engine.py: send_telegram -------------------------------------
    content,        \* the generated text handed to send_telegram
    text,           \* send_telegram's local `text` (the remainder)
    chunks,         \* send_telegram's local `chunks`
    consumed,       \* what lstrip("\n") removed at each split, in order
    chat_id,        \* destination chat id
    thread_id,      \* destination sub-thread id
    requests,       \* the sendMessage requests posted so far, in order
    ci,             \* 1-based position of `for chunk in chunks`
    ok,             \* send_telegram's return value ("none" while running)
    \* ---- engine.py: run_searches, web_search --------------------------
    queries,        \* the configured list of queries
    qi,             \* 1-based position of `for i, query in enumerate(queries)`
    all_results,    \* run_searches' local `all_results` (the bullets)
    search_context, \* what run_searches returned (None before it returns)
    issued,         \* the search requests sent so far, in order
    responses,      \* what the search collaborator did with each request
    \* ---- birthday_runner.py: normalize_phone ---------------------------
    phone,          \* the raw phone argument
    normalized,     \* normalize_phone's return value ("pending" before)
    \* ---- birthday_runner.py: get_birthday_contacts, main ---------------
    store,          \* the rows of table contacts, in rowid order
    interactions,   \* the rows of table interactions
    mmdd,           \* the month-day looked for
    min_score,      \* the exclusive score threshold
    today_year,     \* date.today().year
    contacts,       \* main's `contacts` (None before the query)
    bi,             \* 1-based position of `for i, contact in enumerate(contacts, 1)`
    sent,           \* main's `sent`
    message,        \* main's `message` for the current contact
    gen_log,        \* per contact processed: did the generation call succeed
    cards           \* the card requests posted so far, in order

briefVars == <<content, text, chunks, consumed, chat_id, thread_id, requests, ci, ok>>

searchVars == <<queries, qi, all_results, search_context, issued, responses>>

phoneVars == <<phone, normalized>>

birthdayVars == <<store, interactions, mmdd, min_score, today_year, contacts,
                  bi, sent, message, gen_log, cards>>

vars == <<pc, briefVars, searchVars, phoneVars, birthdayVars>>

(***************************************************************************)
(* Bounds of the explored inputs.                                          *)
(***************************************************************************)
MaxSegs == 4

MaxQueries == 3

MaxResults == 2

MaxPhoneRuns == 3

MaxRows == 2

(***************************************************************************)
(* Python str values.  A string is held run-length encoded: a sequence of  *)
(* runs [ch, n] (n >= 1 copies of the character ch) in which adjacent runs *)
(* differ in ch, so that equal strings are equal values.  The operators    *)
(* below compute what the Python operations compute on the characters.     *)
(***************************************************************************)
Run(c, k) == [ch |-> c, n |-> k]

\* c * k
Rep(c, k) == IF k > 0 THEN <<Run(c, k)>> ELSE <<>>

\* a + b, for a and b in the normal form
Cat(a, b) ==
    IF a = <<>> THEN b
    ELSE IF b = <<>> THEN a
    ELSE IF a[Len(a)].ch = b[1].ch
         THEN SubSeq(a, 1, Len(a) - 1)
                 \o <<Run(b[1].ch, a[Len(a)].n + b[1].n)>> \o Tail(b)
         ELSE a \o b

\* the normal form of a sequence of runs
RECURSIVE Norm(_)
Norm(t) ==
    IF Len(t) = 0 THEN <<>>
    ELSE IF Len(t) = 1 THEN (IF t[1].n = 0 THEN <<>> ELSE <<t[1]>>)
    ELSE Cat(Norm(SubSeq(t, 1, Len(t) \div 2)),
             Norm(SubSeq(t, Len(t) \div 2 + 1, Len(t))))

\* len(t)
RECURSIVE StrLen(_)
StrLen(t) ==
    IF Len(t) = 0 THEN 0
    ELSE IF Len(t) = 1 THEN t[1].n
    ELSE StrLen(SubSeq(t, 1, Len(t) \div 2))
            + StrLen(SubSeq(t, Len(t) \div 2 + 1, Len(t)))

\* t[:k]
RECURSIVE SliceTo(_, _)
SliceTo(t, k) ==
    IF t = <<>> \/ k <= 0 THEN <<>>
    ELSE IF Head(t).n <= k THEN <<Head(t)>> \o SliceTo(Tail(t), k - Head(t).n)
    ELSE <<Run(Head(t).ch, k)>>

\* t[k:]
RECURSIVE SliceFrom(_, _)
SliceFrom(t, k) ==
    IF t = <<>> THEN <<>>
    ELSE IF k <= 0 THEN t
    ELSE IF Head(t).n <= k THEN SliceFrom(Tail(t), k - Head(t).n)
    ELSE <<Run(Head(t).ch, Head(t).n - k)>> \o Tail(t)

\* 0-based index of the last c in p, p starting at offset off; -1 if none
RECURSIVE LastIndex(_, _, _)
LastIndex(p, c, off) ==
    IF p = <<>> THEN -1
    ELSE LET later == LastIndex(Tail(p), c, off + Head(p).n)
         IN  IF later # -1 THEN later
             ELSE IF Head(p).ch = c THEN off + Head(p).n - 1
             ELSE -1

\* t.rfind(c, lo, hi)
RFind(t, c, lo, hi) ==
    LET r == LastIndex(SliceTo(t, hi), c, 0)
    IN  IF r >= lo THEN r ELSE -1

\* t.lstrip(c)
LStrip(t, c) == IF t # <<>> /\ Head(t).ch = c THEN Tail(t) ELSE t

\* a string literal of the source
Lit(s) == Norm([i \in 1..Len(s) |-> Run(SubSeq(s, i, i), 1)])

\* sep.join(parts)
RECURSIVE Join(_, _)
Join(sep, parts) ==
    IF parts = <<>> THEN <<>>
    ELSE IF Len(parts) = 1 THEN parts[1]
    ELSE Cat(parts[1], Cat(sep, Join(sep, Tail(parts))))

\* Python's None
None == <<[none |-> TRUE]>>

(***************************************************************************)
(* Variables of the flows that are not running.                            *)
(***************************************************************************)
IdleBrief ==
    /\ content = <<>> /\ text = <<>> /\ chunks = <<>> /\ consumed = <<>>
    /\ chat_id = "" /\ thread_id = 0 /\ requests = <<>> /\ ci = 1 /\ ok = "none"

IdleSearch ==
    /\ queries = <<>> /\ qi = 1 /\ all_results = <<>>
    /\ search_context = None /\ issued = <<>> /\ responses = <<>>

IdlePhone == phone = None /\ normalized = "pending"

IdleBirthday ==
    /\ store = <<>> /\ interactions = {} /\ mmdd = <<>> /\ min_score = 0
    /\ today_year = 0 /\ contacts = None /\ bi = 1 /\ sent = 0
    /\ message = None /\ gen_log = <<>> /\ cards = <<>>

(***************************************************************************)
(* engine.py: send_telegram                                                *)
(***************************************************************************)
MAX_LEN == 4000

\* the loop condition written with >= instead of >
LoopCond_AtCeiling(t) == StrLen(t) >= MAX_LEN

LoopCond(t) == StrLen(t) > MAX_LEN

\* the hard cut taken one character past the ceiling
split_at_PastCeiling(t) ==
    LET r == RFind(t, "\n", 0, MAX_LEN)
    IN  IF r = -1 THEN MAX_LEN + 1 ELSE r

split_at(t) ==
    LET r == RFind(t, "\n", 0, MAX_LEN)
    IN  IF r = -1 THEN MAX_LEN ELSE r

\* the remainder without the lstrip("\n")
Remainder_NoStrip(t) == SliceFrom(t, split_at(t))

\* the remainder taken from one character after the split point
Remainder_SkipsOne(t) == LStrip(SliceFrom(t, split_at(t) + 1), "\n")

Remainder(t) == LStrip(SliceFrom(t, split_at(t)), "\n")

\* one iteration of `while len(text) > MAX_LEN`
SplitLoop ==
    /\ pc = "split"
    /\ LoopCond(text)
    /\ chunks' = Append(chunks, SliceTo(text, split_at(text)))
    /\ text' = Remainder(text)
    /\ consumed' = Append(consumed,
          SliceTo(SliceFrom(text, split_at(text)),
                  StrLen(SliceFrom(text, split_at(text))) - StrLen(Remainder(text))))
    /\ UNCHANGED <<pc, content, chat_id, thread_id, requests, ci, ok>>
    /\ UNCHANGED <<searchVars, phoneVars, birthdayVars>>

\* loop exit and `if text: chunks.append(text)`
SplitFinish ==
    /\ pc = "split"
    /\ ~LoopCond(text)
    /\ chunks' = IF text # <<>> THEN Append(chunks, text) ELSE chunks
    /\ pc' = "send"
    /\ UNCHANGED <<content, text, consumed, chat_id, thread_id, requests, ci, ok>>
    /\ UNCHANGED <<searchVars, phoneVars, birthdayVars>>

\* the outcomes of requests.post: a response that is ok, a response that
\* is not ok, or an exception (timeout, connection error)
PostOutcomes == {"ok", "not_ok", "raise"}

\* one iteration of `for chunk in chunks`
SendChunk ==
    /\ pc = "send"
    /\ ci <= Len(chunks)
    /\ \E outcome \in PostOutcomes :
         /\ requests' = Append(requests,
               [chat_id |-> chat_id, message_thread_id |-> thread_id,
                text |-> chunks[ci], outcome |-> outcome])
         /\ CASE outcome = "ok"     -> /\ ci' = ci + 1
                                       /\ UNCHANGED <<pc, ok>>
              [] outcome = "not_ok" -> /\ ok' = "False"
                                       /\ pc' = "done"
                                       /\ UNCHANGED ci
              [] outcome = "raise"  -> /\ pc' = "raised"
                                       /\ UNCHANGED <<ci, ok>>
    /\ UNCHANGED <<content, text, chunks, consumed, chat_id, thread_id>>
    /\ UNCHANGED <<searchVars, phoneVars, birthdayVars>>

\* `return True` after the loop
SendReturn ==
    /\ pc = "send"
    /\ ci > Len(chunks)
    /\ ok' = "True"
    /\ pc' = "done"
    /\ UNCHANGED <<content, text, chunks, consumed, chat_id, thread_id, requests, ci>>
    /\ UNCHANGED <<searchVars, phoneVars, birthdayVars>>

(***************************************************************************)
(* Inputs of send_telegram: texts made of up to MaxSegs runs of one        *)
(* character, with run lengths around the ceiling.                         *)
(***************************************************************************)
SegChars == {"\n", "a", "b"}

SegLens == {1, MAX_LEN - 1, MAX_LEN}

Segs == [ch : SegChars, n : SegLens]

SegLists == UNION {[1..m -> Segs] : m \in 0..MaxSegs}

RECURSIVE Concat(_)
Concat(ss) ==
    IF ss = <<>> THEN <<>> ELSE Cat(Rep(Head(ss).ch, Head(ss).n), Concat(Tail(ss)))

ChatIds == {"-1001", "-1002"}

ThreadIds == {7}

InitBrief ==
    /\ pc = "split"
    /\ \E ss \in SegLists : content = Concat(ss)
    /\ text = content
    /\ chunks = <<>>
    /\ consumed = <<>>
    /\ chat_id \in ChatIds
    /\ thread_id \in ThreadIds
    /\ requests = <<>>
    /\ ci = 1
    /\ ok = "none"
    /\ IdleSearch /\ IdlePhone /\ IdleBirthday

NextBrief == SplitLoop \/ SplitFinish \/ SendChunk \/ SendReturn

SpecBrief == InitBrief /\ [][NextBrief]_vars


(***************************************************************************)
(* engine.py: web_search, run_searches and the generation call of main     *)
(***************************************************************************)
\* what the search collaborator can do with one request: answer with a
\* list of results, answer with a non-2xx status (raise_for_status raises),
\* or fail at the transport (requests.get raises)
ResultSet == [title : {<<>>, Lit("T")}, url : {Lit("u")}, description : {Lit("d")}]

ResultLists == UNION {[1..m -> ResultSet] : m \in 0..MaxResults}

SearchOutcomes ==
    {[kind |-> "ok", results |-> rs] : rs \in ResultLists}
        \cup {[kind |-> k, results |-> <<>>] : k \in {"http_error", "raise"}}

\* web_search: the results of a successful request; [] on any exception
web_search(outcome) == IF outcome.kind = "ok" THEN outcome.results ELSE <<>>

\* f"* [{r['title']}]({r['url']})\n  {r['description']}"
Bullet(r) ==
    Cat(Lit("* ["), Cat(r.title, Cat(Lit("]("), Cat(r.url,
        Cat(Lit(")\n  "), r.description)))))

Sentinel == Lit("No search results found.")

\* the `return` of run_searches, without the sentinel
JoinedOrEmpty(all) == Join(Lit("\n\n"), all)

\* the `return` of run_searches
JoinedOrSentinel(all) == IF all # <<>> THEN Join(Lit("\n\n"), all) ELSE Sentinel

\* one iteration of `for i, query in enumerate(queries)`
SearchQuery ==
    /\ pc = "search"
    /\ qi <= Len(queries)
    /\ \E outcome \in SearchOutcomes :
         /\ issued' = Append(issued, [q |-> queries[qi], count |-> 8, freshness |-> "pd"])
         /\ responses' = Append(responses, outcome)
         /\ all_results' = all_results \o
               [j \in 1..Len(web_search(outcome)) |-> Bullet(web_search(outcome)[j])]
    /\ qi' = qi + 1
    /\ UNCHANGED <<pc, queries, search_context>>
    /\ UNCHANGED <<briefVars, phoneVars, birthdayVars>>

\* the `return` of run_searches; main goes on to the generation call
SearchReturn ==
    /\ pc = "search"
    /\ qi > Len(queries)
    /\ search_context' = JoinedOrSentinel(all_results)
    /\ pc' = "generate"
    /\ UNCHANGED <<queries, qi, all_results, issued, responses>>
    /\ UNCHANGED <<briefVars, phoneVars, birthdayVars>>

\* call_claude in main: the generated text, or an exception that ends the run
GeneratedTexts == {Lit("brief"), Cat(Rep("a", MAX_LEN), Lit("\nb"))}

CallClaude ==
    /\ pc = "generate"
    /\ \E outcome \in {"ok", "raise"} :
         IF outcome = "ok"
         THEN /\ \E g \in GeneratedTexts : content' = g
              /\ pc' = "generated"
         ELSE /\ pc' = "raised"
              /\ UNCHANGED content
    /\ UNCHANGED <<text, chunks, consumed, chat_id, thread_id, requests, ci, ok>>
    /\ UNCHANGED <<searchVars, phoneVars, birthdayVars>>

\* the configured lists of queries: m distinct queries "q", "qq", ...
QueryLists == {[i \in 1..m |-> Rep("q", i)] : m \in 0..MaxQueries}

InitSearch ==
    /\ pc = "search"
    /\ queries \in QueryLists
    /\ qi = 1
    /\ all_results = <<>>
    /\ search_context = None
    /\ issued = <<>>
    /\ responses = <<>>
    /\ IdleBrief /\ IdlePhone /\ IdleBirthday

NextSearch == SearchQuery \/ SearchReturn \/ CallClaude

SpecSearch == InitSearch /\ [][NextSearch]_vars


(***************************************************************************)
(* birthday_runner.py: normalize_phone                                     *)
(***************************************************************************)
Digits == {"0", "1", "2", "3", "4", "5", "6", "7", "8", "9"}

\* t with only the characters of keep left: re.sub of the complement by ""
RECURSIVE Keep(_, _)
Keep(t, keep) ==
    IF Len(t) = 0 THEN <<>>
    ELSE IF Len(t) = 1 THEN (IF t[1].ch \in keep THEN t ELSE <<>>)
    ELSE Cat(Keep(SubSeq(t, 1, Len(t) \div 2), keep),
             Keep(SubSeq(t, Len(t) \div 2 + 1, Len(t)), keep))

normalize_phone(p) ==
    IF p = None \/ p = <<>> THEN None
    ELSE LET digits == Keep(p, Digits \cup {"+"})
             bare   == LStrip(digits, "+")
         IN  IF StrLen(bare) = 10 THEN Cat(Lit("+1"), bare)
             ELSE IF StrLen(bare) >= 11 THEN Cat(Lit("+"), bare)
             ELSE None

NormalizePhone ==
    /\ pc = "phone"
    /\ normalized' = normalize_phone(phone)
    /\ pc' = "phone_done"
    /\ UNCHANGED phone
    /\ UNCHANGED <<briefVars, searchVars, birthdayVars>>

PhoneChars == {"+", "1", "5", "-"}

PhoneRunLens == {1, 4, 9, 10}

PhoneRuns == [ch : PhoneChars, n : PhoneRunLens]

Phones ==
    {None} \cup {Concat(rs) : rs \in UNION {[1..m -> PhoneRuns] : m \in 0..MaxPhoneRuns}}

InitPhone ==
    /\ pc = "phone"
    /\ phone \in Phones
    /\ normalized = "pending"
    /\ IdleBrief /\ IdleSearch /\ IdleBirthday

NextPhone == NormalizePhone

SpecPhone == InitPhone /\ [][NextPhone]_vars


(***************************************************************************)
(* birthday_runner.py: get_birthday_contacts                               *)
(***************************************************************************)
\* bool(x) of an optional string
Truthy(x) == x # None /\ x # <<>>

\* SQL substr(t, pos, len), pos counted from 1
Substr(t, pos, len) == SliceTo(SliceFrom(t, pos - 1), len)

\* the rows the WHERE clause keeps, as positions in the table
Matching ==
    {i \in DOMAIN store :
        /\ store[i].birthday # None
        /\ store[i].birthday # <<>>
        /\ Substr(store[i].birthday, 6, 5) = mmdd
        /\ store[i].score > min_score}

\* the second query: the most recent interaction of a contact, or None
last_interaction(id) ==
    LET mine == {x \in interactions : x.contact_id = id}
    IN  IF mine = {} THEN None
        ELSE CHOOSE x \in mine : \A y \in mine : y.date <= x.date

\* the rows GROUP BY c.email may show for an email: the bare columns of a
\* grouped query come from an arbitrary row of the group
GroupRows(email) == {i \in Matching : store[i].email = email}

\* the query of get_birthday_contacts and the loop over its rows
GetBirthdayContacts ==
    /\ pc = "select"
    /\ LET emails == {store[i].email : i \in Matching}
       IN  \E rep \in [emails -> DOMAIN store] :
           \E order \in [1..Cardinality(emails) -> emails] :
              /\ \A e \in emails : rep[e] \in GroupRows(e)
              /\ \A k, l \in DOMAIN order : k # l => order[k] # order[l]
              /\ \A k, l \in DOMAIN order :
                    k < l => store[rep[order[k]]].score >= store[rep[order[l]]].score
              /\ contacts' = [k \in DOMAIN order |->
                    [id |-> store[rep[order[k]]].id,
                     name |-> store[rep[order[k]]].name,
                     email |-> store[rep[order[k]]].email,
                     phone |-> store[rep[order[k]]].phone,
                     company |-> store[rep[order[k]]].company,
                     role |-> store[rep[order[k]]].role,
                     score |-> store[rep[order[k]]].score,
                     birthday |-> store[rep[order[k]]].birthday,
                     last_touch |-> store[rep[order[k]]].last_touch,
                     preferred_name |-> store[rep[order[k]]].preferred_name,
                     last_interaction |-> last_interaction(store[rep[order[k]]].id)]]
    \* main: `if not contacts: return`
    /\ pc' = IF contacts' = <<>> THEN "returned" ELSE "generate"
    /\ UNCHANGED <<store, interactions, mmdd, min_score, today_year,
                   bi, sent, message, gen_log, cards>>
    /\ UNCHANGED <<briefVars, searchVars, phoneVars>>

(***************************************************************************)
(* birthday_runner.py: generate_birthday_message and the fallback          *)
(***************************************************************************)
Whitespace == {" ", "\t", "\n"}

\* t.split() is not empty
HasWord(t) == \E i \in DOMAIN t : t[i].ch \notin Whitespace

MinOf(S) == CHOOSE m \in S : \A k \in S : m <= k

\* t without its leading characters of cs
LStripSet(t, cs) ==
    LET S == {i \in DOMAIN t : t[i].ch \notin cs}
    IN  IF S = {} THEN <<>> ELSE SubSeq(t, MinOf(S), Len(t))

\* t up to its first character of cs
UpToSet(t, cs) ==
    LET S == {i \in DOMAIN t : t[i].ch \in cs}
    IN  IF S = {} THEN t ELSE SubSeq(t, 1, MinOf(S) - 1)

\* t.split()[0], for a t that has a word
FirstWord(t) == UpToSet(LStripSet(t, Whitespace), Whitespace)

\* does `contact.get("preferred_name") or name.split()[0]` raise
\* (AttributeError on a NULL name, IndexError on a name without a word)
FirstNameRaises(c) ==
    ~Truthy(c.preferred_name) /\ (c.name = None \/ ~HasWord(c.name))

FirstName(c) == IF Truthy(c.preferred_name) THEN c.preferred_name ELSE FirstWord(c.name)

\* f"$ Happy Birthday {first}! Hope you have a great day ~"
Fallback(c) ==
    Cat(Lit("$ Happy Birthday "), Cat(FirstName(c), Lit("! Hope you have a great day ~")))

\* the texts the generation collaborator may answer with
Messages == {Lit("Cheers to you, Ann!"), Lit("Tom & Jerry <3"), Rep("y", MAX_LEN)}

\* the try/except around generate_birthday_message in main
Generate ==
    /\ pc = "generate"
    /\ \E outcome \in {"ok", "fail"} :
       \E m \in Messages :
          IF outcome = "ok" /\ ~FirstNameRaises(contacts[bi])
          THEN /\ message' = m
               /\ gen_log' = Append(gen_log, "ok")
               /\ pc' = "send_card"
          ELSE IF ~FirstNameRaises(contacts[bi])
          THEN /\ message' = Fallback(contacts[bi])
               /\ gen_log' = Append(gen_log, "failed")
               /\ pc' = "send_card"
          ELSE /\ gen_log' = Append(gen_log, "failed")
               /\ pc' = "crashed_fallback"
               /\ UNCHANGED message
    /\ UNCHANGED <<store, interactions, mmdd, min_score, today_year, contacts,
                   bi, sent, cards>>
    /\ UNCHANGED <<briefVars, searchVars, phoneVars>>


(***************************************************************************)
(* birthday_runner.py: html_escape, send_birthday_message, main's loop     *)
(***************************************************************************)
\* r repeated k times
RECURSIVE Times(_, _)
Times(r, k) ==
    IF k <= 0 THEN <<>>
    ELSE IF k = 1 THEN r
    ELSE Cat(Times(r, k \div 2), Times(r, k - k \div 2))

\* t.replace(c, r) for a single character c
RECURSIVE Replace(_, _, _)
Replace(t, c, r) ==
    IF Len(t) = 0 THEN <<>>
    ELSE IF Len(t) = 1 THEN (IF t[1].ch = c THEN Times(r, t[1].n) ELSE t)
    ELSE Cat(Replace(SubSeq(t, 1, Len(t) \div 2), c, r),
             Replace(SubSeq(t, Len(t) \div 2 + 1, Len(t)), c, r))

html_escape(t) ==
    Replace(Replace(Replace(t, "&", Lit("&amp;")), "<", Lit("&lt;")), ">", Lit("&gt;"))

DigitChar(d) == CASE d = 0 -> "0" [] d = 1 -> "1" [] d = 2 -> "2" [] d = 3 -> "3"
                  [] d = 4 -> "4" [] d = 5 -> "5" [] d = 6 -> "6" [] d = 7 -> "7"
                  [] d = 8 -> "8" [] d = 9 -> "9"

DigitVal(c) == CHOOSE d \in 0..9 : DigitChar(d) = c

\* str(k)
RECURSIVE IntToStr(_)
IntToStr(k) ==
    IF k < 0 THEN Cat(Lit("-"), IntToStr(0 - k))
    ELSE IF k < 10 THEN Rep(DigitChar(k), 1)
    ELSE Cat(IntToStr(k \div 10), Rep(DigitChar(k % 10), 1))

\* int(t) for a t made of decimal digits; acc is the value read so far
RECURSIVE DigitsValue(_, _)
DigitsValue(t, acc) ==
    IF t = <<>> THEN acc
    ELSE IF Head(t).n = 1 THEN DigitsValue(Tail(t), acc * 10 + DigitVal(Head(t).ch))
    ELSE DigitsValue(<<Run(Head(t).ch, Head(t).n - 1)>> \o Tail(t),
                     acc * 10 + DigitVal(Head(t).ch))

\* int(t) raises ValueError
IntRaises(t) == t = <<>> \/ \E i \in DOMAIN t : t[i].ch \notin Digits

\* the `bday_display` of send_birthday_message
bday_display(c) ==
    IF ~Truthy(c.birthday) \/ IntRaises(SliceTo(c.birthday, 4)) THEN <<>>
    ELSE IF DigitsValue(SliceTo(c.birthday, 4), 0) > 1800
         THEN Cat(Lit(" | ~ Turns "),
                  Cat(IntToStr(today_year - DigitsValue(SliceTo(c.birthday, 4), 0)),
                      Lit(" today")))
         ELSE <<>>

\* the `context_parts` of send_birthday_message
context_parts(c) ==
    IF Truthy(c.role) /\ Truthy(c.company)
    THEN <<Cat(c.role, Cat(Lit(" at "), c.company))>>
    ELSE IF Truthy(c.company) THEN <<c.company>>
    ELSE <<>>

\* filter(None, parts)
NonEmpty(parts) == SelectSeq(parts, LAMBDA x : x # <<>>)

context_line(c) ==
    Join(Lit(" | "), NonEmpty(<<
        html_escape(Join(Lit(", "), context_parts(c))),
        Cat(Lit("Score "), Cat(IntToStr(c.score), Lit("/100"))),
        Cat(Lit("Last contact: "),
            Cat(IF Truthy(c.last_touch) THEN c.last_touch ELSE Lit("never"),
                bday_display(c)))>>))

tel_url(p) == Cat(Lit("tel:"), p)

phone_line(c) ==
    IF Truthy(normalize_phone(c.phone))
    THEN Cat(Lit("\n^ <a href=\""),
             Cat(tel_url(normalize_phone(c.phone)),
                 Cat(Lit("\">"),
                     Cat(html_escape(IF Truthy(c.phone) THEN c.phone
                                     ELSE normalize_phone(c.phone)),
                         Lit("</a>")))))
    ELSE <<>>

\* the `text` of the card, for a contact whose name is not NULL
card_text(c, m) ==
    Cat(Lit("~ <b>"), Cat(html_escape(c.name), Cat(Lit("</b> has a birthday today\n"),
    Cat(Lit("<i>"), Cat(context_line(c), Cat(Lit("</i>"), Cat(phone_line(c),
    Cat(Lit("\n\n"), html_escape(m)))))))))

\* send_birthday_message and the rest of the loop body of main
SendCard ==
    /\ pc = "send_card"
    /\ IF contacts[bi].name = None
       THEN \* html_escape(None) raises AttributeError
            /\ pc' = "crashed_card"
            /\ UNCHANGED <<bi, sent, cards>>
       ELSE \E outcome \in PostOutcomes :
            /\ cards' = Append(cards,
                  [contact |-> contacts[bi].id,
                   chat_id |-> chat_id, message_thread_id |-> thread_id,
                   text |-> card_text(contacts[bi], message),
                   copy_text |-> message, outcome |-> outcome])
            /\ CASE outcome = "ok"     -> sent' = sent + 1
                 [] outcome = "not_ok" -> UNCHANGED sent
                 [] outcome = "raise"  -> UNCHANGED sent
            /\ IF outcome = "raise"
               THEN pc' = "crashed_post" /\ UNCHANGED bi
               ELSE /\ bi' = bi + 1
                    /\ pc' = IF bi = Len(contacts) THEN "summary" ELSE "generate"
    /\ UNCHANGED <<store, interactions, mmdd, min_score, today_year, contacts,
                   message, gen_log>>
    /\ UNCHANGED <<content, text, chunks, consumed, chat_id, thread_id, requests, ci, ok>>
    /\ UNCHANGED <<searchVars, phoneVars>>

(***************************************************************************)
(* Inputs of the birthday run: a table of up to MaxRows rows.              *)
(***************************************************************************)
Profiles == {
    [name |-> Lit("Ann Lee"), preferred_name |-> None, company |-> Lit("Acme"),
     role |-> Lit("CTO"), phone |-> Lit("(555) 123-4567"),
     birthday |-> Lit("1990-03-14"), last_touch |-> Lit("2026-01-05")],
    [name |-> <<>>, preferred_name |-> None, company |-> None,
     role |-> None, phone |-> None,
     birthday |-> Lit("0000-03-14"), last_touch |-> None],
    [name |-> None, preferred_name |-> Lit("Bo"), company |-> Lit("R&D <Labs>"),
     role |-> None, phone |-> Lit("12345"),
     birthday |-> Lit("1985-03-14"), last_touch |-> None],
    [name |-> Rep("x", MAX_LEN), preferred_name |-> <<>>, company |-> None,
     role |-> Lit("Dev"), phone |-> Lit("+44 20 7946 0958"),
     birthday |-> Lit("19x0-03-14"), last_touch |-> Lit("2025-12-24")],
    [name |-> Lit("Cy Dee"), preferred_name |-> Lit("Cy"), company |-> Lit("Acme"),
     role |-> None, phone |-> None,
     birthday |-> Lit("1990-07-01"), last_touch |-> None],
    [name |-> Lit("Di Eff"), preferred_name |-> None, company |-> None,
     role |-> None, phone |-> None,
     birthday |-> <<>>, last_touch |-> None],
    [name |-> Lit("Ed Gee"), preferred_name |-> None, company |-> None,
     role |-> None, phone |-> None,
     birthday |-> None, last_touch |-> None]}

Emails == {Lit("a@x.com"), Lit("b@x.com")}

Scores == {25, 40, 91}

Tables ==
    UNION {[1..m -> [profile : Profiles, email : Emails, score : Scores]] : m \in 0..MaxRows}

\* dates are compared as the numbers their ISO form spells
InteractionRows ==
    {[contact_id |-> 1, date |-> 20260102, subject |-> Lit("Lunch")],
     [contact_id |-> 1, date |-> 20260203, subject |-> Lit("Call")]}

InitBirthday ==
    /\ pc = "select"
    /\ \E t \in Tables :
          store = [i \in DOMAIN t |->
              [id |-> i, name |-> t[i].profile.name, email |-> t[i].email,
               phone |-> t[i].profile.phone, company |-> t[i].profile.company,
               role |-> t[i].profile.role, score |-> t[i].score,
               birthday |-> t[i].profile.birthday,
               last_touch |-> t[i].profile.last_touch,
               preferred_name |-> t[i].profile.preferred_name]]
    /\ interactions \in SUBSET InteractionRows
    /\ mmdd = Lit("03-14")
    /\ min_score = 30
    /\ today_year = 2026
    /\ contacts = None
    /\ bi = 1
    /\ sent = 0
    /\ message = None
    /\ gen_log = <<>>
    /\ cards = <<>>
    /\ content = <<>> /\ text = <<>> /\ chunks = <<>> /\ consumed = <<>>
    /\ requests = <<>> /\ ci = 1 /\ ok = "none"
    /\ chat_id \in ChatIds
    /\ thread_id \in ThreadIds
    /\ IdleSearch /\ IdlePhone

NextBirthday == GetBirthdayContacts \/ Generate \/ SendCard

SpecBirthday == InitBirthday /\ [][NextBirthday]_vars


(***************************************************************************)
(* Properties of send_telegram.                                            *)
(***************************************************************************)
\* C1: when send_telegram has returned, every chunk was attempted exactly once,
\* in order c1..cn, each to the same chat id and thread id, whatever the
\* transport outcomes were (a failure on ci does not abort ci+1..cn).
C1_EveryChunkAttempted ==
    pc = "done" =>
        /\ Len(requests) = Len(chunks)
        /\ \A i \in DOMAIN requests :
              /\ requests[i].text = chunks[i]
              /\ requests[i].chat_id = chat_id
              /\ requests[i].message_thread_id = thread_id

\* C2: every chunk built and every chunk transmitted has at most MAX_LEN
\* characters (newline cut, hard cut or final remainder).
C2_ChunkWithinCeiling ==
    /\ \A i \in DOMAIN chunks : StrLen(chunks[i]) <= MAX_LEN
    /\ \A i \in DOMAIN requests : StrLen(requests[i].text) <= MAX_LEN

C2_Witness ==
    /\ pc = "done" /\ ok = "True"
    /\ Len(requests) >= 3
    /\ \E i \in DOMAIN consumed : consumed[i] # <<>> /\ StrLen(chunks[i]) < MAX_LEN
    /\ \E i \in DOMAIN consumed : consumed[i] = <<>> /\ StrLen(chunks[i]) = MAX_LEN
    /\ Len(chunks) = Len(consumed) + 1

\* c1 + s1 + c2 + s2 + ... : the chunks with the removed separators put back
RECURSIVE Interleave(_, _)
Interleave(cs, ss) ==
    IF cs = <<>> THEN <<>>
    ELSE Cat(Head(cs),
             IF ss = <<>> THEN Interleave(Tail(cs), <<>>)
             ELSE Cat(Head(ss), Interleave(Tail(cs), Tail(ss))))

RECURSIVE ConcatAll(_)
ConcatAll(cs) == IF cs = <<>> THEN <<>> ELSE Cat(Head(cs), ConcatAll(Tail(cs)))

\* t without its characters c
RECURSIVE Without(_, _)
Without(t, c) ==
    IF Len(t) = 0 THEN <<>>
    ELSE IF Len(t) = 1 THEN (IF t[1].ch = c THEN <<>> ELSE t)
    ELSE Cat(Without(SubSeq(t, 1, Len(t) \div 2), c),
             Without(SubSeq(t, Len(t) \div 2 + 1, Len(t)), c))

OnlyNewlines(t) == \A i \in DOMAIN t : t[i].ch = "\n"

Pending == IF pc = "split" THEN text ELSE <<>>

\* C3: splitting is lossless: the chunks in order, with the separators
\* removed at the split points put back (and, while splitting, the remainder
\* still to be split), are the original text; every removed separator is
\* made of newlines only; the non-newline characters of the original are
\* those of the chunks, in the same order.
C3_Lossless ==
    /\ Cat(Interleave(chunks, consumed), Pending) = content
    /\ \A i \in DOMAIN consumed : OnlyNewlines(consumed[i])
    /\ Without(Cat(ConcatAll(chunks), Pending), "\n") = Without(content, "\n")

C3_Witness ==
    /\ pc = "done"
    /\ Len(chunks) >= 3
    /\ \E i \in DOMAIN consumed : StrLen(consumed[i]) >= 2
    /\ \E i \in DOMAIN consumed : consumed[i] = <<>>
    /\ \E i \in DOMAIN chunks : ~OnlyNewlines(chunks[i])

\* C4 as stated: a text of at most MAX_LEN characters, the empty text
\* included, is split into exactly one chunk equal to the text.
C4_OneChunkAlways ==
    (pc # "split" /\ StrLen(content) <= MAX_LEN) => chunks = <<content>>

\* C4 amended: a non-empty text of at most MAX_LEN characters is split into
\* exactly one chunk equal to the text; the empty text gives no chunk.
C4_OneChunkUnlessEmpty ==
    (pc # "split" /\ StrLen(content) <= MAX_LEN) =>
        chunks = IF content = <<>> THEN <<>> ELSE <<content>>

C4_Witness ==
    /\ pc = "done"
    /\ StrLen(content) = MAX_LEN
    /\ Len(content) >= 2
    /\ chunks = <<content>>
    /\ Len(requests) = 1


(***************************************************************************)
(* Properties of run_searches.                                             *)
(***************************************************************************)
\* the results the collaborator delivered, in request order; none for a
\* request that failed
RECURSIVE Gathered(_)
Gathered(rs) ==
    IF rs = <<>> THEN <<>>
    ELSE (IF Head(rs).kind = "ok" THEN Head(rs).results ELSE <<>>) \o Gathered(Tail(rs))

\* the bullets of rs, a blank line between two bullets
RECURSIVE BlankLineSeparated(_)
BlankLineSeparated(rs) ==
    IF rs = <<>> THEN <<>>
    ELSE IF Len(rs) = 1 THEN Bullet(rs[1])
    ELSE Cat(Bullet(rs[1]), Cat(Rep("\n", 2), BlankLineSeparated(Tail(rs))))

\* C8: run_searches issues every query exactly once in list order whatever
\* fails, a failed query counts as no results, and what it returns is the
\* bullets of the gathered results in order separated by blank lines, or
\* the sentinel when nothing was gathered: never the empty string; the run
\* then reaches the generation call.
C8_SearchContext ==
    /\ qi <= Len(queries) + 1
    /\ issued = [i \in 1..(qi - 1) |-> [q |-> queries[i], count |-> 8, freshness |-> "pd"]]
    /\ Len(responses) = Len(issued)
    /\ pc = "search" => search_context = None
    /\ pc \in {"generate", "generated", "raised"} =>
          /\ Len(issued) = Len(queries)
          /\ search_context # <<>>
          /\ StrLen(search_context) > 0
          /\ search_context =
                IF Gathered(responses) = <<>>
                THEN Lit("No search results found.")
                ELSE BlankLineSeparated(Gathered(responses))

C8_Witness ==
    /\ pc = "generated"
    /\ Len(queries) >= 3
    /\ responses[1].kind # "ok"
    /\ \E i, j \in DOMAIN responses :
          i < j /\ Len(web_search(responses[i])) >= 1 /\ Len(web_search(responses[j])) >= 2

\* the digits of t, in order
DigitsOf(t) == IF t = None THEN <<>> ELSE Keep(t, Digits)

\* C5: normalize_phone follows the rule on the digits of the raw string:
\* fewer than 10 digits gives none, exactly 10 gives +1 and the 10 digits
\* (12 characters), 11 or more gives one plus sign and the digits.
C5_NormalizeRule ==
    pc = "phone_done" =>
        normalized =
            IF StrLen(DigitsOf(phone)) < 10 THEN None
            ELSE IF StrLen(DigitsOf(phone)) = 10 THEN Cat(Lit("+1"), DigitsOf(phone))
            ELSE Cat(Lit("+"), DigitsOf(phone))


(***************************************************************************)
(* Properties of the birthday run.                                         *)
(***************************************************************************)
Selected == pc \notin {"select"} /\ contacts # None

\* the columns of a returned contact that come from table contacts
RowOf(c) ==
    [id |-> c.id, name |-> c.name, email |-> c.email, phone |-> c.phone,
     company |-> c.company, role |-> c.role, score |-> c.score,
     birthday |-> c.birthday, last_touch |-> c.last_touch,
     preferred_name |-> c.preferred_name]

\* C6: get_birthday_contacts returns exactly one contact per distinct email
\* of the matching rows, that contact carries the fields of the
\* highest-scoring matching row with its email, and the result is ordered
\* by score descending.
C6_OnePerEmailBestScore ==
    Selected =>
        /\ Len(contacts) = Cardinality({store[i].email : i \in Matching})
        /\ {contacts[k].email : k \in DOMAIN contacts} = {store[i].email : i \in Matching}
        /\ \A k \in DOMAIN contacts :
              \E i \in Matching :
                 /\ RowOf(contacts[k]) = store[i]
                 /\ \A j \in Matching :
                       store[j].email = store[i].email => store[j].score <= store[i].score
        /\ \A k, l \in DOMAIN contacts :
              k < l => contacts[k].score >= contacts[l].score

\* C7: a generation failure for a contact is replaced by the fallback
\* message, delivery is then attempted for that contact, and the run goes
\* on with the remaining contacts: it never aborts the batch.
C7_GenerationFailureContinues ==
    /\ pc # "crashed_fallback"
    /\ (pc = "send_card" /\ gen_log[bi] = "failed") => message = Fallback(contacts[bi])
    /\ \A k \in DOMAIN gen_log :
          (gen_log[k] = "failed" /\ k < bi) => (k <= Len(cards) /\ cards[k].contact = contacts[k].id)

\* C9: every card transmitted by send_birthday_message has a text of at
\* most 4000 characters.
C9_CardWithinCeiling ==
    \A k \in DOMAIN cards : StrLen(cards[k].text) <= MAX_LEN

Ended == pc \in {"returned", "summary", "crashed_fallback", "crashed_card", "crashed_post"}

\* C10: one delivery attempt per selected contact in the selected order,
\* whatever fails; 0 <= sent <= contacts processed <= total throughout; at
\* the end sent is the number of successful attempts; with no contact the
\* run ends with no attempt.
C10_OneAttemptPerContact ==
    Selected =>
        /\ 0 <= sent /\ sent <= bi - 1 /\ bi - 1 <= Len(contacts)
        /\ Ended =>
              /\ Len(cards) = Len(contacts)
              /\ \A k \in DOMAIN cards : cards[k].contact = contacts[k].id
              /\ sent = Cardinality({k \in DOMAIN cards : cards[k].outcome = "ok"})
        /\ contacts = <<>> => (pc = "returned" /\ cards = <<>>)


(***************************************************************************)
(* Termination of the splitting loop.                                      *)
(***************************************************************************)
\* C11: every iteration of the splitting loop strictly shortens the
\* remaining text (also when the split point is 0 and when the cut is a
\* hard cut at MAX_LEN) and adds one chunk, so the length of the remaining
\* text is a decreasing natural number and the loop is left after finitely
\* many iterations.
C11_SplitTerminates ==
    [][(pc = "split" /\ LoopCond(text)) =>
          (/\ StrLen(text') < StrLen(text)
           /\ Len(chunks') = Len(chunks) + 1
           /\ pc' = "split")]_vars

C11_Witness ==
    /\ pc = "send"
    /\ Len(chunks) >= 3
    /\ chunks[1] = <<>> /\ consumed[1] # <<>>
    /\ \E i \in DOMAIN consumed : consumed[i] = <<>> /\ StrLen(chunks[i]) = MAX_LEN

=============================================================================
